---- MODULE Spec2Model ----
(***************************************************************************)
(* Model of the revisional interest calculator:                            *)
(*   calculadora_financeira.py  (amortization engine and comparator)       *)
(*   bacen_api.py               (reference rate provider)                  *)
(*   main_app.py                (presentation flow around the comparator)  *)
(*                                                                         *)
(* Python floats are binary floating-point numbers rounded to nearest,    *)
(* ties to even.  The model keeps that arithmetic and scales the          *)
(* significand down from 53 bits to MantBits bits; the exponent is         *)
(* unbounded.  A float is a record [m, e] standing for m * 2^e with        *)
(* 2^(MantBits-1) <= |m| < 2^MantBits, or m = 0 and e = 0.                 *)
(***************************************************************************)
EXTENDS Integers, Sequences, FiniteSets, TLC

\* Width of the significand of a float of the model.
MantBits == 7

\* Largest valid term (prazo_meses) an evaluation is called with.
MaxTerm == 3

(***************************************************************************)
(* Floating-point arithmetic.                                              *)
(***************************************************************************)
Abs(x) == IF x < 0 THEN -x ELSE x

Sign(x) == IF x < 0 THEN -1 ELSE 1

Zero == [m |-> 0, e |-> 0]

\* Round a / d * 2^e (with d * 2^(MantBits-1) <= a < d * 2^MantBits) to the
\* nearest significand, ties to even, and attach the sign s.
RoundNearestEven(s, a, d, e) ==
    LET q == a \div d
        r == a % d
        up == (2 * r > d) \/ (2 * r = d /\ q % 2 = 1)
        mm == IF up THEN q + 1 ELSE q
    IN  IF mm = 2 ^ MantBits
          THEN [m |-> s * 2 ^ (MantBits - 1), e |-> e + 1]
          ELSE [m |-> s * mm, e |-> e]

RECURSIVE Scale(_, _, _, _)
\* Bring a / d into [2^(MantBits-1), 2^MantBits) by moving powers of two into e.
Scale(s, a, d, e) ==
    IF a \div (2 ^ MantBits) >= d
      THEN Scale(s, a, 2 * d, e + 1)
      ELSE IF a < d * 2 ^ (MantBits - 1)
             THEN Scale(s, 2 * a, d, e - 1)
             ELSE RoundNearestEven(s, a, d, e)

\* The float nearest to n / d * 2^e  (d > 0).
Norm(n, d, e) == IF n = 0 THEN Zero ELSE Scale(Sign(n), Abs(n), d, e)

\* A decimal literal or a parsed number n / d.
Lit(n, d) == Norm(n, d, 0)

One == Lit(1, 1)

FNeg(x) == [m |-> -x.m, e |-> x.e]

FMul(x, y) == Norm(x.m * y.m, 1, x.e + y.e)

\* x / y for y # 0.
FDiv(x, y) == Norm(Sign(y.m) * x.m, Abs(y.m), x.e - y.e)

\* x + y; an operand below a quarter of the other's last place is absorbed.
FAdd(x, y) ==
    IF x.m = 0 THEN y
    ELSE IF y.m = 0 THEN x
    ELSE LET hi == IF x.e >= y.e THEN x ELSE y
             lo == IF x.e >= y.e THEN y ELSE x
             d  == hi.e - lo.e
         IN  IF d > MantBits + 1
               THEN hi
               ELSE Norm(hi.m * 2 ^ d + lo.m, 1, lo.e)

FSub(x, y) == FAdd(x, FNeg(y))

\* Comparisons are exact: the rounded difference has the sign of the exact one.
FLt(x, y) == FSub(x, y).m < 0

FLe(x, y) == FSub(x, y).m <= 0

FMin(x, y) == IF FLt(y, x) THEN y ELSE x

RECURSIVE OddPart(_)
OddPart(k) == IF k # 0 /\ k % 2 = 0 THEN OddPart(k \div 2) ELSE k

RECURSIVE TwoPart(_)
TwoPart(k) == IF k # 0 /\ k % 2 = 0 THEN 1 + TwoPart(k \div 2) ELSE 0

RECURSIVE BigPow(_, _)
\* o ** k for naturals o and k, exactly, as the pair <<high, low>> standing
\* for high * 2^20 + low with low < 2^20.
BigPow(o, k) ==
    IF k = 0 THEN <<0, 1>>
    ELSE LET p == BigPow(o, k - 1)
             l == p[2] * o
         IN  <<p[1] * o + l \div 2 ^ 20, l % 2 ^ 20>>

RECURSIVE BigOdd(_, _, _, _)
\* The pair <<high, low>> times 2^e brought down to one limb: bits shifted out
\* are remembered in the last place (rounding to odd), so that the rounding
\* to MantBits bits that follows is the rounding of the exact value.
BigOdd(high, low, e, sticky) ==
    IF high = 0
      THEN [m |-> IF sticky /\ low % 2 = 0 THEN low + 1 ELSE low, e |-> e]
      ELSE BigOdd(high \div 2, low \div 2 + (high % 2) * 2 ^ 19, e + 1,
                  sticky \/ low % 2 = 1)

\* x ** n for an integer n: the exact power, rounded once (x # 0 when n < 0).
FPow(x, n) ==
    LET o   == OddPart(x.m)
        t   == TwoPart(x.m) + x.e
        sgn == IF o < 0 /\ Abs(n) % 2 = 1 THEN -1 ELSE 1
        b   == BigPow(Abs(o), Abs(n))
        a   == BigOdd(b[1], b[2], 0, FALSE)
    IN  IF n = 0 THEN One
        ELSE IF n > 0 THEN Norm(sgn * a.m, 1, t * n + a.e)
        ELSE Norm(sgn, a.m, t * n - a.e)

\* The result of a numpy division by zero (inf or nan).  It is produced only
\* by pmt with nper = 0, where the caller's loop never reads the payment.
NonFinite == [m |-> 0, e |-> 1]

\* numpy's x / y: a division by zero warns and yields a non-finite value.
NpDiv(x, y) == IF y.m = 0 THEN NonFinite ELSE FDiv(x, y)

(***************************************************************************)
(* calculadora_financeira.py: the amortization engine.                     *)
(***************************************************************************)
\* numpy_financial.pmt(rate, nper, pv) with fv = 0 and when = 'end':
\*   temp = (1 + rate)**nper
\*   fact = nper if rate == 0 else (temp - 1) / rate
\*   pmt  = -(pv * temp) / fact
pmt(rate, nper, pv) ==
    LET temp == FPow(FAdd(One, rate), nper)
        fact == IF rate.m = 0
                  THEN Lit(nper, 1)
                  ELSE FDiv(FSub(temp, One), rate)
        r    == NpDiv(FMul(pv, temp), fact)
    IN  IF r = NonFinite THEN NonFinite ELSE FNeg(r)

TabelaLinha(mes, parcela, juros, amortizacao, saldo_devedor) ==
    [mes |-> mes, parcela |-> parcela, juros |-> juros,
     amortizacao |-> amortizacao, saldo_devedor |-> saldo_devedor]

RECURSIVE price_loop(_, _, _, _, _, _)
\* The body of the for loop of calcular_tabela_price, from month mes on.
price_loop(mes, prazo_meses, taxa_mensal, parcela_fixa, saldo_devedor, tabela) ==
    IF mes > prazo_meses THEN tabela
    ELSE LET juros       == FMul(saldo_devedor, taxa_mensal)
             amortizacao == FSub(parcela_fixa, juros)
             saldo       == FSub(saldo_devedor, amortizacao)
             saldo_final == IF mes = prazo_meses THEN Zero ELSE saldo
         IN  price_loop(mes + 1, prazo_meses, taxa_mensal, parcela_fixa, saldo_final,
                        Append(tabela, TabelaLinha(mes, parcela_fixa, juros,
                                                   amortizacao, saldo_final)))

\* Mutant: the payment comes from the annuity formula alone, which divides by
\* zero at rate 0.
calcular_tabela_price_sem_caso_zero(principal, taxa_mensal, prazo_meses) ==
    LET temp == FPow(FAdd(One, taxa_mensal), prazo_meses)
        fact == NpDiv(FSub(temp, One), taxa_mensal)
        parcela_fixa == NpDiv(FMul(principal, temp), fact)
    IN  price_loop(1, prazo_meses, taxa_mensal, parcela_fixa, principal, <<>>)

\* calcular_tabela_price: the schedule it returns.
calcular_tabela_price(principal, taxa_mensal, prazo_meses) ==
    LET p == pmt(taxa_mensal, prazo_meses, principal)
        parcela_fixa == IF p = NonFinite THEN NonFinite ELSE FNeg(p)
    IN  price_loop(1, prazo_meses, taxa_mensal, parcela_fixa, principal, <<>>)

\* The precision adjustment threshold of calcular_tabela_sac, 0.001.
EPSILON_SAC == Lit(1, 1000)

RECURSIVE sac_loop_juros_depois(_, _, _, _, _, _)
\* Mutant: the interest is computed after the balance was updated.
sac_loop_juros_depois(mes, prazo_meses, taxa_mensal, amortizacao_fixa, saldo_devedor, tabela) ==
    IF mes > prazo_meses THEN tabela
    ELSE LET saldo       == FSub(saldo_devedor, amortizacao_fixa)
             saldo_final == IF FLt(saldo, EPSILON_SAC) THEN Zero ELSE saldo
             juros       == FMul(saldo_final, taxa_mensal)
             parcela     == FAdd(amortizacao_fixa, juros)
         IN  sac_loop_juros_depois(mes + 1, prazo_meses, taxa_mensal, amortizacao_fixa,
                                   saldo_final,
                                   Append(tabela, TabelaLinha(mes, parcela, juros,
                                                              amortizacao_fixa, saldo_final)))

RECURSIVE sac_loop(_, _, _, _, _, _)
\* The body of the for loop of calcular_tabela_sac, from month mes on.
sac_loop(mes, prazo_meses, taxa_mensal, amortizacao_fixa, saldo_devedor, tabela) ==
    IF mes > prazo_meses THEN tabela
    ELSE LET juros       == FMul(saldo_devedor, taxa_mensal)
             parcela     == FAdd(amortizacao_fixa, juros)
             saldo       == FSub(saldo_devedor, amortizacao_fixa)
             saldo_final == IF FLt(saldo, EPSILON_SAC) THEN Zero ELSE saldo
         IN  sac_loop(mes + 1, prazo_meses, taxa_mensal, amortizacao_fixa, saldo_final,
                      Append(tabela, TabelaLinha(mes, parcela, juros,
                                                 amortizacao_fixa, saldo_final)))

\* calcular_tabela_sac: the schedule it returns (prazo_meses # 0).
calcular_tabela_sac(principal, taxa_mensal, prazo_meses) ==
    sac_loop(1, prazo_meses, taxa_mensal, FDiv(principal, Lit(prazo_meses, 1)),
             principal, <<>>)

RECURSIVE soma_juros(_, _, _)
\* sum(linha['juros'] for linha in tabela): a left fold starting from int 0.
\* (CPython 3.12 and later compensate the sum of plain floats; the result can
\* differ from the fold in the last place.)
soma_juros(tabela, i, acc) ==
    IF i > Len(tabela) THEN acc
    ELSE soma_juros(tabela, i + 1, FAdd(acc, tabela[i].juros))

juros_total(tabela) == soma_juros(tabela, 1, Zero)

(***************************************************************************)
(* config.py and bacen_api.py: the reference rate provider.                *)
(***************************************************************************)
\* MODALIDADES_BACEN: modality name -> series code (one entry of the five; the
\* others differ only in their code).
MODALIDADES_BACEN == [n \in {"Capital de Giro (PJ)"} |-> "20745"]

\* Modality names a caller passes: a mapped one and an unmapped one.
Modalidades == {"Capital de Giro (PJ)", "Leasing (PJ)"}

\* datetime.strptime(data_contrato, '%d/%m/%Y').strftime('%m/%Y') for the
\* dates of the model; a string outside the domain raises ValueError.
MesAno == [d \in {"15/05/2023"} |-> "05/2023"]

Datas == {"15/05/2023", "2023-05-15"}

\* What one requests.get + raise_for_status + json() + float() can end in.
Falhas == {"timeout", "http_erro", "json_invalido", "lista_vazia"}

\* dados[-1]['valor'] of a successful response, in percent (n / d):
\* 0, 1.3, 1.95, 3.125, 4.6875 and 6.25.
ValoresBacen == {<<0, 1>>, <<13, 10>>, <<195, 100>>, <<25, 8>>, <<75, 16>>, <<25, 4>>}

\* Lines 56-59: float(valor) / 100.
taxa_de_valor(v) == FDiv(Lit(v[1], v[2]), Lit(100, 1))

(***************************************************************************)
(* calculadora_financeira.py: calcular_abusividade.                        *)
(***************************************************************************)
\* str.upper() on the convention names of the model.
Upper == [s \in {"PRICE", "SAC", "sac", "GAUSS"} |->
            CASE s = "PRICE" -> "PRICE"
              [] s = "SAC"   -> "SAC"
              [] s = "sac"   -> "SAC"
              [] s = "GAUSS" -> "GAUSS"]

\* Convention names a direct caller passes.
Sistemas == {"PRICE", "sac", "GAUSS"}

\* func_calculo(principal, taxa, prazo) for the selected function.
func_calculo_de(nome, principal, taxa, prazo_meses) ==
    IF nome = "PRICE"
      THEN calcular_tabela_price(principal, taxa, prazo_meses)
      ELSE calcular_tabela_sac(principal, taxa, prazo_meses)

\* calcular_tabela_sac divides by prazo_meses before anything else.
levanta_zero_division(nome, prazo_meses) == nome = "SAC" /\ prazo_meses = 0

\* TOLERANCIA_JUDICIAL = 0.5
TOLERANCIA_JUDICIAL == Lit(1, 2)

\* Mutant: the tolerance is forgotten.
limite_judicial_sem_tolerancia(taxa) == taxa

\* Mutant: the tolerance is subtracted.
limite_judicial_sinal_trocado(taxa) == FMul(taxa, FSub(One, TOLERANCIA_JUDICIAL))

\* limite_judicial = taxa_bacen * (1 + TOLERANCIA_JUDICIAL)
limite_judicial(taxa) == FMul(taxa, FAdd(One, TOLERANCIA_JUDICIAL))

\* Mutant: the limit is applied even when it is above the contracted rate.
taxa_recalculo_sem_min(taxa_contratada, limite) == limite

\* taxa_recalculo = min(taxa_contratada, limite)
taxa_recalculo(taxa_contratada, limite) == FMin(taxa_contratada, limite)

\* valor_abusivo = max(0, juros_total_original - juros_total_recalculado)
valor_abusivo(juros_original, juros_recalculado) ==
    LET d == FSub(juros_original, juros_recalculado)
    IN  IF d.m > 0 THEN d ELSE Zero

Tese(taxa, juros, valor, tab) ==
    [taxa_recalculada |-> taxa, juros_total_recalculado |-> juros,
     valor_abusivo_total |-> valor, tabela_recalculada |-> tab]

TeseVazia == Tese(Zero, Zero, Zero, <<>>)

\* One thesis: recompute the schedule at the fair rate and take the difference.
avaliar_tese(nome, args, juros_original, limite) ==
    LET taxa == taxa_recalculo(args.taxa_contratada, limite)
        tab  == func_calculo_de(nome, args.principal, taxa, args.prazo_meses)
        jur  == juros_total(tab)
    IN  Tese(taxa, jur, valor_abusivo(juros_original, jur), tab)

Args(modalidade, data, principal, taxa, prazo, sistema) ==
    [modalidade_nome |-> modalidade, data_contrato |-> data,
     principal |-> principal, taxa_contratada |-> taxa,
     prazo_meses |-> prazo, sistema_amortizacao |-> sistema]

ArgsVazios == Args("", "", Zero, Zero, 0, "")

(***************************************************************************)
(* main_app.py: the form and the conversion of its fields.                 *)
(***************************************************************************)
\* A text field is a sequence of one-character strings.
Digitos == [c \in {"0", "1", "2", "3", "4", "5", "6", "7", "8", "9"} |->
              CASE c = "0" -> 0 [] c = "1" -> 1 [] c = "2" -> 2 [] c = "3" -> 3
                [] c = "4" -> 4 [] c = "5" -> 5 [] c = "6" -> 6 [] c = "7" -> 7
                [] c = "8" -> 8 [] c = "9" -> 9]

\* str.replace(de, para) for one-character de; para is a sequence (empty or one character).
RECURSIVE replace(_, _, _)
replace(str, de, para) ==
    IF str = <<>> THEN <<>>
    ELSE (IF Head(str) = de THEN para ELSE <<Head(str)>>) \o replace(Tail(str), de, para)

\* Line 122: principal_string_input.replace('.', '').replace(',', '.')
principal_limpa(str) == replace(replace(str, ".", <<>>), ",", <<".">>)

RECURSIVE so_digitos(_)
so_digitos(str) == str = <<>> \/ (Head(str) \in DOMAIN Digitos /\ so_digitos(Tail(str)))

RECURSIVE valor_digitos(_, _)
valor_digitos(str, acc) ==
    IF str = <<>> THEN acc ELSE valor_digitos(Tail(str), 10 * acc + Digitos[Head(str)])

\* Position of the first '.', or 0.
RECURSIVE pos_ponto(_, _)
pos_ponto(str, i) ==
    IF i > Len(str) THEN 0 ELSE IF str[i] = "." THEN i ELSE pos_ponto(str, i + 1)

\* float(str) accepts here an unsigned decimal numeral: digits with at most one
\* point and at least one digit.  Anything else raises ValueError.
float_ok(str) ==
    LET k == pos_ponto(str, 1)
        inteira == IF k = 0 THEN str ELSE SubSeq(str, 1, k - 1)
        fracao  == IF k = 0 THEN <<>> ELSE SubSeq(str, k + 1, Len(str))
    IN  so_digitos(inteira) /\ so_digitos(fracao) /\ Len(inteira) + Len(fracao) > 0

\* float(str) for a numeral float_ok accepts: the nearest float.
float_de(str) ==
    LET k == pos_ponto(str, 1)
        inteira == IF k = 0 THEN str ELSE SubSeq(str, 1, k - 1)
        fracao  == IF k = 0 THEN <<>> ELSE SubSeq(str, k + 1, Len(str))
    IN  Lit(valor_digitos(inteira \o fracao, 0), 10 ^ Len(fracao))

\* Lines 122-131: the principal of the form; 0.0 when the text does not parse.
principal_do_form(str) ==
    IF float_ok(principal_limpa(str)) THEN float_de(principal_limpa(str)) ELSE Zero

\* Texts typed in the principal field: "1.000,00", "1,00", "0,0015", "0,00", "abc".
PrincipaisDigitados ==
    { <<"1", ".", "0", "0", "0", ",", "0", "0">>, <<"1", ",", "0", "0">>,
      <<"0", ",", "0", "0", "1", "5">>, <<"0", ",", "0", "0">>, <<"a", "b", "c">> }

\* Values of the contracted-rate field, in percent (n / d): 2.8, 3.125, 6.25, 10.
TaxasDigitadas == {<<14, 5>>, <<25, 8>>, <<25, 4>>, <<10, 1>>}

\* Line 116: taxa_contratada = taxa_contratada_input / 100
taxa_do_form(v) == FDiv(Lit(v[1], v[2]), Lit(100, 1))

\* Values of the custom tolerance field, whole percents.
ToleranciasDigitadas == {0, 5, 30, 50, 100}

\* Line 118: tolerancia_personalizada = tolerancia_personalizada_input / 100
tolerancia_do_form(k) == FDiv(Lit(k, 1), Lit(100, 1))

\* A custom limit that forgets the 1 of (1 + tolerance).
limite_personalizado_sem_um(taxa, tolerancia) == FMul(taxa, tolerancia)

\* Line 174: limite_personalizado = taxa_bacen * (1 + tolerancia_personalizada)
limite_personalizado(taxa, tolerancia) == FMul(taxa, FAdd(One, tolerancia))

\* Line 171: func_calculo = price if sistema.upper() == 'PRICE' else sac
func_calculo_app(sistema) == IF Upper[sistema] = "PRICE" THEN "PRICE" ELSE "SAC"

(***************************************************************************)
(* Inputs.                                                                 *)
(***************************************************************************)
\* Principals a direct caller passes: negative, zero, 0.0015, 1, 1000, 60000.
Principais == {Lit(-1, 1), Zero, Lit(3, 2000), Lit(1, 1), Lit(1000, 1), Lit(60000, 1)}

\* Monthly rates a direct caller passes: -1/32, 0, 0.028, 1/32, 1/16, 1/8.
Taxas == {Lit(-1, 32), Zero, Lit(28, 1000), Lit(1, 32), Lit(1, 16), Lit(1, 8)}

\* Terms a direct caller passes.
Prazos == -1 .. MaxTerm

\* Rates passed to the schedule functions themselves: as above, and a rate of
\* about 1.48 units in the last place of 1.0 (3.3e-16 in double precision).
TaxasTabela == Taxas \cup {Lit(95, 4096)}

\* Terms passed to the schedule functions themselves.
PrazosTabela == -1 .. MaxTerm + 1

(***************************************************************************)
(* State.                                                                  *)
(***************************************************************************)
VARIABLES
    pc,                   \* position of the running call
    caller,               \* "none", "direct", "tabela" or "main_app"
    args,                 \* arguments of the running call
    chamadas_bacen,       \* calls of buscar_taxa_media_bacen so far
    requisicoes,          \* outbound requests.get calls so far
    resposta,             \* how the provider call ended
    taxa_bacen,           \* line 96
    func_calculo,         \* lines 99-104: "PRICE", "SAC" or "" (not chosen)
    tabelas_calculadas,   \* schedules computed so far in this evaluation
    tabela_original,      \* line 107
    juros_total_original, \* line 108
    tese1,                \* lines 116-122
    tese2,                \* lines 128-138
    resultado,            \* TRUE once the report of lines 144-162 is returned
    erro,                 \* exception raised: "", "ValueError", "ZeroDivisionError"
    submitted,            \* main_app: the form was submitted in this run
    tolerancia_personalizada,  \* main_app line 118
    tese_personalizada,   \* main_app lines 171-186
    exibido               \* main_app: what the page shows

vars == <<pc, caller, args, chamadas_bacen, requisicoes, resposta, taxa_bacen,
          func_calculo, tabelas_calculadas, tabela_original,
          juros_total_original, tese1, tese2, resultado, erro,
          submitted, tolerancia_personalizada, tese_personalizada, exibido>>

app == <<submitted, tolerancia_personalizada, tese_personalizada, exibido>>

provedor == <<chamadas_bacen, requisicoes, resposta, taxa_bacen>>

calculo == <<func_calculo, tabelas_calculadas, tabela_original,
             juros_total_original, tese1, tese2>>

Init ==
    /\ pc = "idle"
    /\ caller = "none"
    /\ args = ArgsVazios
    /\ chamadas_bacen = 0
    /\ requisicoes = 0
    /\ resposta = "nenhuma"
    /\ taxa_bacen = Zero
    /\ func_calculo = ""
    /\ tabelas_calculadas = 0
    /\ tabela_original = <<>>
    /\ juros_total_original = Zero
    /\ tese1 = TeseVazia
    /\ tese2 = TeseVazia
    /\ resultado = FALSE
    /\ erro = ""
    /\ submitted = FALSE
    /\ tolerancia_personalizada = Zero
    /\ tese_personalizada = TeseVazia
    /\ exibido = {}

(***************************************************************************)
(* Direct calls of the engine.                                             *)
(***************************************************************************)
\* calcular_tabela_price(principal, taxa_mensal, prazo_meses), lines 11-43.
ChamarTabelaPrice ==
    /\ pc = "idle"
    /\ \E p \in Principais, t \in TaxasTabela, n \in PrazosTabela :
         /\ args' = Args("", "", p, t, n, "PRICE")
         /\ tabela_original' = calcular_tabela_price(p, t, n)
    /\ caller' = "tabela"
    /\ func_calculo' = "PRICE"
    /\ tabelas_calculadas' = 1
    /\ pc' = "fim"
    /\ UNCHANGED <<provedor, juros_total_original, tese1, tese2, resultado, erro, app>>

\* calcular_tabela_sac(principal, taxa_mensal, prazo_meses), lines 46-77.
ChamarTabelaSac ==
    /\ pc = "idle"
    /\ \E p \in Principais, t \in TaxasTabela, n \in PrazosTabela :
         /\ args' = Args("", "", p, t, n, "SAC")
         /\ IF levanta_zero_division("SAC", n)
              THEN /\ erro' = "ZeroDivisionError"
                   /\ UNCHANGED <<tabela_original, tabelas_calculadas>>
              ELSE /\ tabela_original' = calcular_tabela_sac(p, t, n)
                   /\ tabelas_calculadas' = 1
                   /\ erro' = ""
    /\ caller' = "tabela"
    /\ func_calculo' = "SAC"
    /\ pc' = "fim"
    /\ UNCHANGED <<provedor, juros_total_original, tese1, tese2, resultado, app>>

(***************************************************************************)
(* calcular_abusividade, step by step.                                     *)
(***************************************************************************)
\* A caller invokes calcular_abusividade(...), lines 80-87.
ChamarAbusividade ==
    /\ pc = "idle"
    /\ \E mo \in Modalidades, da \in Datas, p \in Principais, t \in Taxas,
          n \in Prazos, s \in Sistemas :
         /\ mo = "Capital de Giro (PJ)" \/ da = "15/05/2023"
         /\ args' = Args(mo, da, p, t, n, s)
    /\ caller' = "direct"
    /\ pc' = "buscar"
    /\ UNCHANGED <<provedor, calculo, resultado, erro, app>>

\* Mutant: a failed request is sent a second time.
BuscarTaxaComRetentativa ==
    /\ pc = "buscar"
    /\ chamadas_bacen' = chamadas_bacen + 1
    /\ IF args.modalidade_nome \notin DOMAIN MODALIDADES_BACEN
            \/ args.data_contrato \notin DOMAIN MesAno
         THEN /\ resposta' = "data_invalida"
              /\ taxa_bacen' = Zero
              /\ UNCHANGED requisicoes
         ELSE \/ \E f \in Falhas :
                   /\ resposta' = f
                   /\ taxa_bacen' = Zero
                   /\ requisicoes' = requisicoes + 2
              \/ \E v \in ValoresBacen :
                   /\ resposta' = "ok"
                   /\ taxa_bacen' = taxa_de_valor(v)
                   /\ requisicoes' = requisicoes + 1
    /\ pc' = "selecionar"
    /\ UNCHANGED <<caller, args, calculo, resultado, erro, app>>

\* Line 96: buscar_taxa_media_bacen(modalidade_nome, data_contrato), the whole
\* function (bacen_api.py lines 8-69).  Every failure returns 0.0.
BuscarTaxaMediaBacen ==
    /\ pc = "buscar"
    /\ chamadas_bacen' = chamadas_bacen + 1
    /\ IF args.modalidade_nome \notin DOMAIN MODALIDADES_BACEN
         THEN /\ resposta' = "modalidade_desconhecida"
              /\ taxa_bacen' = Zero
              /\ UNCHANGED requisicoes
         ELSE IF args.data_contrato \notin DOMAIN MesAno
         THEN /\ resposta' = "data_invalida"
              /\ taxa_bacen' = Zero
              /\ UNCHANGED requisicoes
         ELSE /\ requisicoes' = requisicoes + 1
              /\ \/ \E f \in Falhas :
                      /\ resposta' = f
                      /\ taxa_bacen' = Zero
                 \/ \E v \in ValoresBacen :
                      /\ resposta' = "ok"
                      /\ taxa_bacen' = taxa_de_valor(v)
    /\ pc' = "selecionar"
    /\ UNCHANGED <<caller, args, calculo, resultado, erro, app>>

\* Mutant: any name other than PRICE selects SAC, as line 171 of main_app does.
SelecionarFuncaoCoagida ==
    /\ pc = "selecionar"
    /\ func_calculo' = IF Upper[args.sistema_amortizacao] = "PRICE" THEN "PRICE" ELSE "SAC"
    /\ pc' = "original"
    /\ UNCHANGED <<caller, args, provedor, tabelas_calculadas, tabela_original,
                   juros_total_original, tese1, tese2, resultado, erro, app>>

\* Lines 99-104: choose the schedule function or raise ValueError.
SelecionarFuncao ==
    /\ pc = "selecionar"
    /\ LET u == Upper[args.sistema_amortizacao]
       IN  IF u \in {"PRICE", "SAC"}
             THEN /\ func_calculo' = u
                  /\ pc' = "original"
                  /\ UNCHANGED erro
             ELSE /\ erro' = "ValueError"
                  /\ pc' = "fim"
                  /\ UNCHANGED func_calculo
    /\ UNCHANGED <<caller, args, provedor, tabelas_calculadas, tabela_original,
                   juros_total_original, tese1, tese2, resultado, app>>

\* Lines 107-108: the original schedule and its total interest.
GerarTabelaOriginal ==
    /\ pc = "original"
    /\ IF levanta_zero_division(func_calculo, args.prazo_meses)
         THEN /\ erro' = "ZeroDivisionError"
              /\ pc' = "fim"
              /\ UNCHANGED <<tabelas_calculadas, tabela_original, juros_total_original>>
         ELSE LET tab == func_calculo_de(func_calculo, args.principal,
                                         args.taxa_contratada, args.prazo_meses)
              IN  /\ tabela_original' = tab
                  /\ juros_total_original' = juros_total(tab)
                  /\ tabelas_calculadas' = tabelas_calculadas + 1
                  /\ pc' = "tese1"
                  /\ UNCHANGED erro
    /\ UNCHANGED <<caller, args, provedor, func_calculo, tese1, tese2, resultado, app>>

\* Lines 116-122: zero tolerance, the limit is taxa_bacen itself.
CalcularTese1 ==
    /\ pc = "tese1"
    /\ tese1' = avaliar_tese(func_calculo, args, juros_total_original, taxa_bacen)
    /\ tabelas_calculadas' = tabelas_calculadas + 1
    /\ pc' = "tese2"
    /\ UNCHANGED <<caller, args, provedor, func_calculo, tabela_original,
                   juros_total_original, tese2, resultado, erro, app>>

\* Lines 128-138: fifty percent tolerance.
CalcularTese2 ==
    /\ pc = "tese2"
    /\ tese2' = avaliar_tese(func_calculo, args, juros_total_original,
                             limite_judicial(taxa_bacen))
    /\ tabelas_calculadas' = tabelas_calculadas + 1
    /\ pc' = "retorno"
    /\ UNCHANGED <<caller, args, provedor, func_calculo, tabela_original,
                   juros_total_original, tese1, resultado, erro, app>>

\* Lines 144-162: return the report.
Retornar ==
    /\ pc = "retorno"
    /\ resultado' = TRUE
    /\ pc' = IF caller = "main_app" THEN "app_verificar" ELSE "fim"
    /\ UNCHANGED <<caller, args, provedor, calculo, erro, app>>

(***************************************************************************)
(* main_app.py: one run of the page script.                                *)
(***************************************************************************)
\* Lines 42-146: read the form, convert its fields and, when the form was
\* submitted with a positive principal, call calcular_abusividade.
MainAppExecutar ==
    /\ pc = "idle"
    /\ \E sub \in BOOLEAN, da \in Datas, ps \in PrincipaisDigitados,
          tx \in TaxasDigitadas, n \in 1 .. MaxTerm, s \in {"PRICE", "SAC"} :
         LET principal == principal_do_form(ps)
         IN  /\ submitted' = sub
             /\ args' = Args("Capital de Giro (PJ)", da, principal,
                             taxa_do_form(tx), n, s)
             /\ exibido' = IF sub /\ ~float_ok(principal_limpa(ps))
                              THEN {"erro_formato"}
                              ELSE IF sub /\ principal.m > 0
                                     THEN {"cabecalho"} ELSE {}
             /\ pc' = IF sub /\ principal.m > 0 THEN "buscar" ELSE "fim"
    /\ caller' = "main_app"
    /\ UNCHANGED <<provedor, calculo, resultado, erro, tolerancia_personalizada,
                   tese_personalizada>>

\* A page that shows the error for a zero reference rate and goes on.
MainAppVerificarTaxaSemParar ==
    /\ pc = "app_verificar"
    /\ exibido' = exibido \cup (IF taxa_bacen = Zero THEN {"erro_taxa"}
                                                    ELSE {"resumo"})
    /\ pc' = "app_personalizada"
    /\ UNCHANGED <<caller, args, provedor, calculo, resultado, erro, submitted,
                   tolerancia_personalizada, tese_personalizada>>

\* Lines 148-166: stop on a zero reference rate, else show the summary and
\* the verdict of the fifty percent thesis.
MainAppVerificarTaxa ==
    /\ pc = "app_verificar"
    /\ IF taxa_bacen = Zero
         THEN /\ exibido' = exibido \cup {"erro_taxa"}
              /\ pc' = "fim"
         ELSE /\ exibido' = exibido \cup
                    {"resumo",
                     IF FLe(args.taxa_contratada, FMul(taxa_bacen, Lit(3, 2)))
                       THEN "dentro_do_limite" ELSE "abusividade"}
              /\ pc' = "app_personalizada"
    /\ UNCHANGED <<caller, args, provedor, calculo, resultado, erro, submitted,
                   tolerancia_personalizada, tese_personalizada>>

\* Lines 171-186: the custom thesis, computed by the page itself.
MainAppTesePersonalizada ==
    /\ pc = "app_personalizada"
    /\ \E k \in ToleranciasDigitadas :
         LET tol == tolerancia_do_form(k)
         IN  /\ tolerancia_personalizada' = tol
             /\ tese_personalizada' =
                    avaliar_tese(func_calculo_app(args.sistema_amortizacao), args,
                                 juros_total_original,
                                 limite_personalizado(taxa_bacen, tol))
    /\ tabelas_calculadas' = tabelas_calculadas + 1
    /\ pc' = "app_exibir"
    /\ UNCHANGED <<caller, args, provedor, func_calculo, tabela_original,
                   juros_total_original, tese1, tese2, resultado, erro, submitted,
                   exibido>>

\* Lines 189-271: the three theses side by side and the comparison table.
MainAppExibir ==
    /\ pc = "app_exibir"
    /\ exibido' = exibido \cup {"teses", "tabela"}
    /\ pc' = "fim"
    /\ UNCHANGED <<caller, args, provedor, calculo, resultado, erro, submitted,
                   tolerancia_personalizada, tese_personalizada>>

Next ==
    \/ ChamarTabelaPrice
    \/ ChamarTabelaSac
    \/ ChamarAbusividade
    \/ BuscarTaxaMediaBacen
    \/ SelecionarFuncao
    \/ GerarTabelaOriginal
    \/ CalcularTese1
    \/ CalcularTese2
    \/ Retornar
    \/ MainAppExecutar
    \/ MainAppVerificarTaxa
    \/ MainAppTesePersonalizada
    \/ MainAppExibir

Spec == Init /\ [][Next]_vars

(***************************************************************************)
(* Properties.                                                             *)
(***************************************************************************)
\* The arguments are valid: principal > 0, rate >= 0, term >= 1.
ArgsValidos ==
    /\ args.principal.m > 0
    /\ args.taxa_contratada.m >= 0
    /\ args.prazo_meses >= 1

\* The schedules computed so far, each with the convention and the rate it
\* was computed for.
Produzida(sistema, taxa, tab) == [sistema |-> sistema, taxa |-> taxa, tabela |-> tab]

Produzidas ==
    (IF tabelas_calculadas >= 1
       THEN {Produzida(func_calculo, args.taxa_contratada, tabela_original)} ELSE {})
    \cup (IF tabelas_calculadas >= 2
            THEN {Produzida(func_calculo, tese1.taxa_recalculada, tese1.tabela_recalculada)}
            ELSE {})
    \cup (IF tabelas_calculadas >= 3
            THEN {Produzida(func_calculo, tese2.taxa_recalculada, tese2.tabela_recalculada)}
            ELSE {})
    \cup (IF tabelas_calculadas >= 4
            THEN {Produzida(func_calculo, tese_personalizada.taxa_recalculada,
                            tese_personalizada.tabela_recalculada)}
            ELSE {})

\* The balance a line starts from: the principal, or the previous line's balance.
SaldoAnterior(tab, i) == IF i = 1 THEN args.principal ELSE tab[i - 1].saldo_devedor

\* C1: when the provider signals that the rate is unavailable (it returned a
\* rate that is not positive), calcular_abusividade returns no normal report.
C1_IndisponivelNaoRetornaRelatorio ==
    (chamadas_bacen = 1 /\ taxa_bacen.m <= 0) => ~resultado

\* C2: a call of calcular_tabela_price, calcular_tabela_sac or
\* calcular_abusividade with term <= 0, rate < 0 or principal <= 0 computes no
\* schedule, returns no report and ends in a domain validation error.
C2_EntradaInvalidaRejeitada ==
    (caller \in {"tabela", "direct"} /\ ~ArgsValidos) =>
        /\ tabelas_calculadas = 0
        /\ ~resultado
        /\ (pc = "fim" => erro = "ValueError")

\* C3: both thesis results of calcular_abusividade have an abusive amount
\* >= 0, and it is 0 whenever contracted_rate <= reference_rate * (1 + tolerance).
C3_AbusivoNaoNegativo ==
    ArgsValidos =>
        /\ tabelas_calculadas >= 2 =>
             /\ tese1.valor_abusivo_total.m >= 0
             /\ FLe(args.taxa_contratada, FMul(taxa_bacen, FAdd(One, Zero)))
                  => tese1.valor_abusivo_total = Zero
        /\ tabelas_calculadas >= 3 =>
             /\ tese2.valor_abusivo_total.m >= 0
             /\ FLe(args.taxa_contratada, FMul(taxa_bacen, FAdd(One, Lit(1, 2))))
                  => tese2.valor_abusivo_total = Zero

\* C3 witness: a valid contract whose rate is above the reference rate and
\* within the fifty percent limit: thesis 1 finds abuse, thesis 2 finds none.
C3_Witness ==
    /\ resultado /\ ArgsValidos
    /\ FLt(taxa_bacen, args.taxa_contratada)
    /\ FLe(args.taxa_contratada, FMul(taxa_bacen, FAdd(One, Lit(1, 2))))
    /\ tese1.valor_abusivo_total.m > 0
    /\ tese2.valor_abusivo_total = Zero

\* The tolerances compared by C4: the two standard ones and the form's.
ToleranciasC4 == {Zero, Lit(1, 2)} \cup {tolerancia_do_form(k) : k \in ToleranciasDigitadas}

\* The abusive amount of the running contract under tolerance t.
AbusivoCom(t) ==
    avaliar_tese(func_calculo, args, juros_total_original,
                 FMul(taxa_bacen, FAdd(One, t))).valor_abusivo_total

C5_SaldoFinalZero ==
    ArgsValidos =>
        \A s \in Produzidas :
            /\ Len(s.tabela) = args.prazo_meses
            /\ \A i \in 1 .. Len(s.tabela) : s.tabela[i].mes = i
            /\ s.tabela[Len(s.tabela)].saldo_devedor = Zero

\* C6: on every line of every schedule the remaining balance is the previous
\* balance minus the principal paid (the principal before line 1), and the
\* interest is the previous balance times the rate, the lines forced or
\* clamped to 0 included.
C6_RecorrenciaDoSaldo ==
    ArgsValidos =>
        \A s \in Produzidas : \A i \in 1 .. Len(s.tabela) :
            /\ s.tabela[i].saldo_devedor
                 = FSub(SaldoAnterior(s.tabela, i), s.tabela[i].amortizacao)
            /\ s.tabela[i].juros = FMul(SaldoAnterior(s.tabela, i), s.taxa)

\* Line i of schedule s is one where the code sets the balance to 0: the last
\* line for PRICE, a line whose computed balance is under 0.001 for SAC.
LinhaZerada(s, i) ==
    LET computado == FSub(SaldoAnterior(s.tabela, i), s.tabela[i].amortizacao)
    IN  IF s.sistema = "PRICE"
          THEN i = args.prazo_meses
          ELSE FLt(computado, Lit(1, 1000))

\* C6 amended: the interest of every line is the previous balance times the
\* rate; the remaining balance is the previous balance minus the principal
\* paid on every line the code does not zero, and is 0 on a line it zeroes.
C6_RecorrenciaForaDasLinhasZeradas ==
    ArgsValidos =>
        \A s \in Produzidas : \A i \in 1 .. Len(s.tabela) :
            /\ s.tabela[i].juros = FMul(SaldoAnterior(s.tabela, i), s.taxa)
            /\ IF LinhaZerada(s, i)
                 THEN s.tabela[i].saldo_devedor = Zero
                 ELSE s.tabela[i].saldo_devedor
                        = FSub(SaldoAnterior(s.tabela, i), s.tabela[i].amortizacao)

\* C6 witness: a SAC schedule whose balance is clamped to 0 before the last
\* period although the computed balance is positive, followed by a line that
\* still pays principal.
C6_Witness ==
    /\ ArgsValidos /\ func_calculo = "SAC" /\ tabelas_calculadas >= 1
    /\ args.prazo_meses >= 2
    /\ tabela_original[1].saldo_devedor = Zero
    /\ FSub(args.principal, tabela_original[1].amortizacao).m > 0
    /\ tabela_original[2].amortizacao.m > 0

\* The fair rate of a thesis with tolerance t, as the claim states it.
TaxaJusta(t) == FMin(args.taxa_contratada, FMul(taxa_bacen, FAdd(One, t)))

\* C7: the fair rate of every thesis is min(contracted_rate,
\* reference_rate * (1 + t)) and is never greater than the contracted rate.
C7_TaxaJustaNuncaAcima ==
    /\ tabelas_calculadas >= 2 =>
         /\ tese1.taxa_recalculada = TaxaJusta(Zero)
         /\ FLe(tese1.taxa_recalculada, args.taxa_contratada)
    /\ tabelas_calculadas >= 3 =>
         /\ tese2.taxa_recalculada = TaxaJusta(Lit(1, 2))
         /\ FLe(tese2.taxa_recalculada, args.taxa_contratada)
    /\ tabelas_calculadas >= 4 =>
         /\ tese_personalizada.taxa_recalculada = TaxaJusta(tolerancia_personalizada)
         /\ FLe(tese_personalizada.taxa_recalculada, args.taxa_contratada)

\* C7 witness: the three theses are computed, the limit of thesis 1 is under
\* the contracted rate and the custom limit is above it.
C7_Witness ==
    /\ tabelas_calculadas >= 4
    /\ FLt(tese1.taxa_recalculada, args.taxa_contratada)
    /\ FLt(args.taxa_contratada, FMul(taxa_bacen, FAdd(One, tolerancia_personalizada)))
    /\ tese_personalizada.taxa_recalculada = args.taxa_contratada

\* C8: an evaluation of calcular_abusividade calls the provider exactly once,
\* and the call makes at most one outbound request, also when it fails.
C8_UmaChamadaSemRetentativa ==
    /\ chamadas_bacen <= 1
    /\ requisicoes <= chamadas_bacen
    /\ (caller \in {"direct", "main_app"} /\ pc \notin {"idle", "buscar"}
          /\ (caller = "main_app" => submitted /\ args.principal.m > 0))
         => chamadas_bacen = 1
    /\ resposta \in Falhas => requisicoes = 1

\* C8 witness: the evaluation ended after a failed request.
C8_Witness ==
    /\ pc = "fim" /\ resultado
    /\ resposta = "timeout"
    /\ requisicoes = 1 /\ chamadas_bacen = 1

\* C9: with a convention that is neither PRICE nor SAC in any case,
\* calcular_abusividade computes no schedule, selects no function, returns no
\* report and ends in ValueError.
C9_SistemaInvalidoRejeitado ==
    (caller = "direct" /\ Upper[args.sistema_amortizacao] \notin {"PRICE", "SAC"}) =>
        /\ tabelas_calculadas = 0
        /\ func_calculo = ""
        /\ ~resultado
        /\ (pc = "fim" => erro = "ValueError")

\* C9 witness: the call with an unknown convention has raised ValueError.
C9_Witness ==
    /\ caller = "direct" /\ args.sistema_amortizacao = "GAUSS"
    /\ pc = "fim" /\ erro = "ValueError" /\ chamadas_bacen = 1

\* C10: with a monthly rate of 0 and valid principal and term, both conventions
\* return the whole schedule without an error, every line's interest is 0, and
\* every PRICE line's payment is principal / term.
C10_TaxaZero ==
    ArgsValidos =>
        \A s \in Produzidas :
            s.taxa = Zero =>
                /\ erro = ""
                /\ Len(s.tabela) = args.prazo_meses
                /\ \A i \in 1 .. Len(s.tabela) :
                      /\ s.tabela[i].juros = Zero
                      /\ s.sistema = "PRICE" =>
                           s.tabela[i].parcela
                             = FDiv(args.principal, Lit(args.prazo_meses, 1))

\* C10 witness: a PRICE schedule of three lines at rate 0.
C10_Witness ==
    /\ ArgsValidos /\ func_calculo = "PRICE" /\ tabelas_calculadas >= 1
    /\ args.taxa_contratada = Zero
    /\ Len(tabela_original) = 3
    /\ tabela_original[3].parcela.m > 0

\* C11: the custom thesis computed by the page with tolerance 0 has the same
\* fair rate and the same abusive amount as the zero tolerance thesis of the
\* report, and with tolerance 0.5 the same as the fifty percent thesis.
C11_PersonalizadaIgualAsPadrao ==
    (caller = "main_app" /\ pc \in {"app_exibir", "fim"}
       /\ "resumo" \in exibido /\ tabelas_calculadas >= 4) =>
        /\ tolerancia_personalizada = Zero =>
              /\ tese_personalizada.taxa_recalculada = tese1.taxa_recalculada
              /\ tese_personalizada.valor_abusivo_total
                   = tese1.valor_abusivo_total
        /\ tolerancia_personalizada = TOLERANCIA_JUDICIAL =>
              /\ tese_personalizada.taxa_recalculada = tese2.taxa_recalculada
              /\ tese_personalizada.valor_abusivo_total
                   = tese2.valor_abusivo_total

\* C11 witness: the page has computed the custom thesis with the slider at 50,
\* the limit binds and the abusive amount is positive.
C11_Witness ==
    /\ caller = "main_app" /\ pc = "app_exibir" /\ tabelas_calculadas >= 4
    /\ tolerancia_personalizada = TOLERANCIA_JUDICIAL
    /\ FLt(tese_personalizada.taxa_recalculada, args.taxa_contratada)
    /\ tese_personalizada.valor_abusivo_total.m > 0

\* C12: in every schedule of either convention produced for valid inputs, the
\* remaining balance never increases from one period to the next, starting
\* from the principal, and is never negative.
C12_SaldoNaoCrescenteNaoNegativo ==
    ArgsValidos =>
        \A s \in Produzidas :
            \A i \in 1 .. Len(s.tabela) :
                /\ s.tabela[i].saldo_devedor.m >= 0
                /\ FLe(s.tabela[i].saldo_devedor, SaldoAnterior(s.tabela, i))

\* What the page shows of a report: the summary, the verdict, the theses'
\* amounts and the comparison table.
ResultadosExibidos ==
    exibido \cap {"resumo", "dentro_do_limite", "abusividade", "teses", "tabela"}

\* C13: in the page, whenever the report of a submitted request has a
\* reference rate of 0.0, the page shows the 'could not obtain the rate' error
\* and stops before the verdict, any thesis amount or the table is shown;
\* results are shown only when the form was submitted, the principal is
\* positive and the reference rate is not 0.0.
C13_TaxaZeroParaAntesDosResultados ==
    /\ (caller = "main_app" /\ resultado /\ taxa_bacen = Zero) =>
          /\ ResultadosExibidos = {}
          /\ \/ pc = "app_verificar"
             \/ pc = "fim" /\ "erro_taxa" \in exibido
    /\ ResultadosExibidos # {} =>
          /\ submitted
          /\ args.principal.m > 0
          /\ taxa_bacen # Zero
          /\ "erro_taxa" \notin exibido

\* C13 witness: a submitted request with a positive principal whose report
\* carries the rate 0.0 has ended on the error message.
C13_Witness ==
    /\ caller = "main_app" /\ submitted /\ args.principal.m > 0
    /\ resultado /\ taxa_bacen = Zero
    /\ pc = "fim" /\ exibido = {"cabecalho", "erro_taxa"}
====
